---- MODULE Spec2Model ----
(***************************************************************************)
(* Model of the dataset reset scripts scripts/clear_database.py and        *)
(* scripts/clear_adjacency_matrix.py.                                      *)
(*                                                                         *)
(* A JSON object is a sequence of <<key, value>> pairs (Python dicts and   *)
(* json.load / json.dump keep insertion order).  The stored file is a      *)
(* sequence of tokens: an opening brace, one token per top-level pair, a   *)
(* closing brace.  A partially written file is a proper prefix of that     *)
(* token sequence.                                                         *)
(***************************************************************************)
EXTENDS Integers, Sequences, FiniteSets, TLC

VARIABLES file, pc, op, data, out, runs, file0, lastDone, trace, bpc, arg, ret

vars == <<file, pc, op, data, out, runs, file0, lastDone, trace, bpc, arg, ret>>

procVars == <<file, pc, op, data, out, runs, file0, lastDone, trace>>

buildVars == <<bpc, arg, ret>>

(***************************************************************************)
(* Bounds.                                                                 *)
(***************************************************************************)
MaxLangs == 2

MaxRuns == 2

MaxIds == 3

(***************************************************************************)
(* JSON values.                                                            *)
(***************************************************************************)
Null == "<null>"

Obj(kv) == [t |-> "obj", kv |-> kv]

Str(s) == [t |-> "str", s |-> s]

Arr == [t |-> "arr"]

NoData == [t |-> "none"]

SeqsUpTo(S, n) == UNION {[1..k -> S] : k \in 0..n}

(***************************************************************************)
(* Python dict operations on a sequence of pairs.                          *)
(***************************************************************************)
HasKey(kv, k) == \E i \in 1..Len(kv) : kv[i][1] = k

IndexOf(kv, k) == CHOOSE i \in 1..Len(kv) : kv[i][1] = k /\ \A j \in 1..(i-1) : kv[j][1] # k

\* d.get(k, default)
DictGet(kv, k, default) == IF HasKey(kv, k) THEN kv[IndexOf(kv, k)][2] ELSE default

\* d[k] = v : replaces in place when the key exists, appends otherwise
SetKey(kv, k, v) ==
  IF HasKey(kv, k) THEN [kv EXCEPT ![IndexOf(kv, k)] = <<k, v>>]
  ELSE Append(kv, <<k, v>>)

\* Python truthiness of a string-or-None value
Truthy(v) == v # Null /\ v # ""

\* a or b
PyOr(a, b) == IF Truthy(a) THEN a ELSE b

(***************************************************************************)
(* build_empty_adjacency                                                   *)
(***************************************************************************)
\* variant: rows one cell short
build_empty_adjacency_short(language_ids) ==
  LET size == Len(language_ids)
      matrix == [i \in 1..size |-> [j \in 1..(size - 1) |-> Null]]
  IN  [languageIds |-> language_ids, matrix |-> matrix]

build_empty_adjacency(language_ids) ==
  LET size == Len(language_ids)
      matrix == [i \in 1..size |-> [j \in 1..size |-> Null]]
  IN  [languageIds |-> language_ids, matrix |-> matrix]

(***************************************************************************)
(* json.dump / json.load                                                   *)
(***************************************************************************)
TokOpen == [tok |-> "{"]

TokClose == [tok |-> "}"]

TokPair(k, v) == [tok |-> "pair", k |-> k, v |-> v]

json_dump(value) ==
  IF value.t = "obj"
  THEN <<TokOpen>> \o [i \in 1..Len(value.kv) |-> TokPair(value.kv[i][1], value.kv[i][2])]
       \o <<TokClose>>
  ELSE <<[tok |-> "["], [tok |-> "]"]>>

json_load(text) ==
  LET n == Len(text) IN
  IF n >= 2 /\ text[1] = TokOpen /\ text[n] = TokClose
     /\ \A i \in 2..(n-1) : text[i].tok = "pair"
  THEN [ok |-> TRUE, value |-> Obj([i \in 1..(n-2) |-> <<text[i+1].k, text[i+1].v>>])]
  ELSE IF text = <<[tok |-> "["], [tok |-> "]"]>>
  THEN [ok |-> TRUE, value |-> Arr]
  ELSE [ok |-> FALSE, value |-> NoData]

(***************************************************************************)
(* The in-memory mutations of the two scripts.                             *)
(***************************************************************************)
\* clear_database.py lines 19-24; assignment into a non-dict raises
clear_database_ok(d) == d.t = "obj"

\* variant: a fresh document is built, the other keys are not carried over
clear_database_fresh(d) ==
  Obj(<< <<"languages", <<>> >>, <<"references", <<>> >>, <<"separatingFunctions", <<>> >>,
         <<"adjacencyMatrix", build_empty_adjacency(<<>>)>> >>)

\* variant: the adjacency is sized from the language list before it is emptied
clear_database_stale_adjacency(d) ==
  Obj(SetKey(SetKey(SetKey(SetKey(d.kv, "adjacencyMatrix",
                                  build_empty_adjacency(DictGet(d.kv, "languages", <<>>))),
                           "languages", <<>>),
                    "references", <<>>),
             "separatingFunctions", <<>>))

clear_database_mutate(d) ==
  Obj(SetKey(SetKey(SetKey(SetKey(d.kv, "languages", <<>>), "references", <<>>),
                    "separatingFunctions", <<>>),
             "adjacencyMatrix", build_empty_adjacency(<<>>)))

\* clear_adjacency_matrix.py line 18
languages_of(d) == DictGet(d.kv, "languages", <<>>)

\* lang.get("id") or lang.get("name")
lang_identifier(lang) == PyOr(DictGet(lang.kv, "id", Null), DictGet(lang.kv, "name", Null))

\* data.get and lang.get raise AttributeError on a non-dict
clear_adjacency_ok(d) ==
  /\ d.t = "obj"
  /\ \A i \in 1..Len(languages_of(d)) : languages_of(d)[i].t = "obj"

\* variant: the language ids of the previous matrix are kept
clear_adjacency_keep_ids(d) ==
  LET old == DictGet(d.kv, "adjacencyMatrix", build_empty_adjacency(<<>>))
  IN  Obj(SetKey(d.kv, "adjacencyMatrix", build_empty_adjacency(old.languageIds)))

\* variant: the references are emptied as well
clear_adjacency_and_references(d) ==
  LET languages == languages_of(d)
      language_ids == [i \in 1..Len(languages) |-> lang_identifier(languages[i])]
  IN  Obj(SetKey(SetKey(d.kv, "references", <<>>),
                 "adjacencyMatrix", build_empty_adjacency(language_ids)))

\* variant: the matrix is emptied whatever the language count
clear_adjacency_simple(d) ==
  Obj(SetKey(d.kv, "adjacencyMatrix", build_empty_adjacency(<<>>)))

clear_adjacency_mutate(d) ==
  LET languages == languages_of(d)
      language_ids == [i \in 1..Len(languages) |-> lang_identifier(languages[i])]
  IN  Obj(SetKey(d.kv, "adjacencyMatrix", build_empty_adjacency(language_ids)))

MsgFull == "Database cleared to empty datasets with valid structure."

MsgAdj == "Database cleared: adjacencyMatrix rebuilt with null entries for all languages."

(***************************************************************************)
(* Documents the storage file may hold before the first run.               *)
(***************************************************************************)
LangEntries ==
  { Obj(<< <<"id", "py">> >>),
    Obj(<< <<"id", "rs">> >>),
    Obj(<< <<"name", "Zig">> >>),
    Obj(<< <<"id", "">>, <<"name", "Zig">> >>),
    Obj(<< <<"id", "">> >>),
    Obj(<< <<"id", Null>>, <<"name", "Zig">> >>),
    Obj(<< <<"name", "Zig">>, <<"id", "py">> >>),
    Obj(<<>>),
    Str("py") }

LangLists == SeqsUpTo(LangEntries, MaxLangs)

Fillers ==
  { [refs |-> <<"r1">>, seps |-> <<"f1">>,
     adj |-> [languageIds |-> <<"old">>, matrix |-> << <<"rel">> >>]],
    [refs |-> <<>>, seps |-> <<>>,
     adj |-> [languageIds |-> <<>>, matrix |-> <<>>]],
    [refs |-> <<"r1", "r2">>, seps |-> <<>>,
     adj |-> [languageIds |-> <<"old">>, matrix |-> <<>>]] }

Docs ==
  { << <<"languages", l>>, <<"references", f.refs>>, <<"separatingFunctions", f.seps>>,
       <<"adjacencyMatrix", f.adj>>, <<"meta", "m1">> >> : l \in LangLists, f \in Fillers }
  \cup
  { << <<"meta", "m1">>, <<"adjacencyMatrix", f.adj>>, <<"languages", l>> >> :
       l \in LangLists, f \in Fillers }
  \cup
  { << <<"meta", "m1">> >>, <<>> }

InitFiles ==
  { [kind |-> "missing"], [kind |-> "unreadable"] }
  \cup { [kind |-> "text", text |-> json_dump(Obj(d))] : d \in Docs }
  \cup { [kind |-> "text", text |-> json_dump(Arr)],
         [kind |-> "text", text |-> <<>>],
         [kind |-> "text", text |-> <<TokOpen, TokPair("meta", "m1")>>] }

(***************************************************************************)
(* The scripts as processes.                                               *)
(***************************************************************************)
Init ==
  /\ file \in InitFiles
  /\ pc = "idle"
  /\ op = "none"
  /\ data = NoData
  /\ out = <<>>
  /\ runs = 0
  /\ file0 = file
  /\ lastDone = "none"
  /\ trace = <<>>
  /\ bpc = "unused"
  /\ arg = <<>>
  /\ ret = build_empty_adjacency(<<>>)

\* python scripts/<o>.py : __main__ calls the function
Start(o) ==
  /\ pc = "idle"
  /\ runs < MaxRuns
  /\ pc' = "start"
  /\ op' = o
  /\ runs' = runs + 1
  /\ data' = NoData
  /\ out' = <<>>
  /\ trace' = <<>>
  /\ file0' = file
  /\ UNCHANGED <<file, lastDone, buildVars>>

\* variant: a read or parse error is swallowed and an empty document is used
LoadSwallow ==
  /\ pc = "start"
  /\ trace' = Append(trace, "read")
  /\ data' = IF file.kind = "text" /\ json_load(file.text).ok
             THEN json_load(file.text).value
             ELSE Obj(<<>>)
  /\ pc' = "loaded"
  /\ UNCHANGED <<file, op, out, runs, file0, lastDone, buildVars>>

\* with database_path.open("r") as file: data = json.load(file)
Load ==
  /\ pc = "start"
  /\ trace' = Append(trace, "read")
  /\ IF file.kind = "text" /\ json_load(file.text).ok
     THEN /\ data' = json_load(file.text).value
          /\ pc' = "loaded"
     ELSE /\ pc' = "failed"
          /\ UNCHANGED data
  /\ UNCHANGED <<file, op, out, runs, file0, lastDone, buildVars>>

\* variant: the status line is printed before the write
MutateAndPrint ==
  /\ pc = "loaded"
  /\ IF op = "full"
     THEN IF clear_database_ok(data)
          THEN data' = clear_database_mutate(data) /\ pc' = "mutated"
          ELSE pc' = "failed" /\ UNCHANGED data
     ELSE IF clear_adjacency_ok(data)
          THEN data' = clear_adjacency_mutate(data) /\ pc' = "mutated"
          ELSE pc' = "failed" /\ UNCHANGED data
  /\ out' = Append(out, IF op = "full" THEN MsgFull ELSE MsgAdj)
  /\ trace' = Append(trace, "print")
  /\ UNCHANGED <<file, op, runs, file0, lastDone, buildVars>>

\* the assignments between the read and the write
Mutate ==
  /\ pc = "loaded"
  /\ IF op = "full"
     THEN IF clear_database_ok(data)
          THEN data' = clear_database_mutate(data) /\ pc' = "mutated"
          ELSE pc' = "failed" /\ UNCHANGED data
     ELSE IF clear_adjacency_ok(data)
          THEN data' = clear_adjacency_mutate(data) /\ pc' = "mutated"
          ELSE pc' = "failed" /\ UNCHANGED data
  /\ UNCHANGED <<file, op, out, runs, file0, lastDone, trace, buildVars>>

\* database_path.open("w") truncates the file
OpenWrite ==
  /\ pc = "mutated"
  /\ file' = [kind |-> "text", text |-> <<>>]
  /\ pc' = "opened_w"
  /\ trace' = Append(trace, "open_w")
  /\ UNCHANGED <<op, data, out, runs, file0, lastDone, buildVars>>

\* database_path.open("w") raises (storage unwritable)
OpenWriteFail ==
  /\ pc = "mutated"
  /\ pc' = "failed"
  /\ trace' = Append(trace, "open_w_err")
  /\ UNCHANGED <<file, op, data, out, runs, file0, lastDone, buildVars>>

\* json.dump(data, file, indent=2) and the close of the with block
Dump ==
  /\ pc = "opened_w"
  /\ file' = [kind |-> "text", text |-> json_dump(data)]
  /\ pc' = "written"
  /\ trace' = Append(trace, "write")
  /\ UNCHANGED <<op, data, out, runs, file0, lastDone, buildVars>>

\* json.dump or the flush at close raises after k tokens reached the storage
DumpFail ==
  /\ pc = "opened_w"
  /\ \E k \in 0..(Len(json_dump(data)) - 1) :
       file' = [kind |-> "text", text |-> SubSeq(json_dump(data), 1, k)]
  /\ pc' = "failed"
  /\ trace' = Append(trace, "write_err")
  /\ UNCHANGED <<op, data, out, runs, file0, lastDone, buildVars>>

\* print(...)
EmitMessage ==
  /\ pc = "written"
  /\ out' = Append(out, IF op = "full" THEN MsgFull ELSE MsgAdj)
  /\ pc' = "done"
  /\ trace' = Append(trace, "print")
  /\ UNCHANGED <<file, op, data, runs, file0, lastDone, buildVars>>

\* the process ends: normally, or with the unhandled exception
Exit ==
  /\ pc \in {"done", "failed"}
  /\ pc' = "idle"
  /\ lastDone' = IF pc = "done" THEN op ELSE "none"
  /\ UNCHANGED <<file, op, data, out, runs, file0, trace, buildVars>>

Next ==
  \/ Start("full")
  \/ Start("adj")
  \/ Load
  \/ Mutate
  \/ OpenWrite
  \/ OpenWriteFail
  \/ Dump
  \/ DumpFail
  \/ EmitMessage
  \/ Exit

Spec == Init /\ [][Next]_vars

(***************************************************************************)
(* build_empty_adjacency on its own, over bounded inputs.                  *)
(***************************************************************************)
IdPool == {"", "py", "rs", "Zig"}

BuildInit ==
  /\ file = [kind |-> "missing"]
  /\ pc = "idle"
  /\ op = "none"
  /\ data = NoData
  /\ out = <<>>
  /\ runs = 0
  /\ file0 = file
  /\ lastDone = "none"
  /\ trace = <<>>
  /\ bpc = "ready"
  /\ arg \in SeqsUpTo(IdPool, MaxIds)
  /\ ret = build_empty_adjacency(<<>>)

BuildCall ==
  /\ bpc = "ready"
  /\ ret' = build_empty_adjacency(arg)
  /\ bpc' = "returned"
  /\ UNCHANGED <<arg, procVars>>

BuildNext == BuildCall

SpecBuild == BuildInit /\ [][BuildNext]_vars

(***************************************************************************)
(* Vocabulary of the properties.                                           *)
(***************************************************************************)
\* the document stored in the file, and the document the current run read
Stored == json_load(file.text).value

Loaded0 == json_load(file0.text).value

ValidJson(text) ==
  \/ /\ Len(text) >= 2
     /\ Head(text) = TokOpen
     /\ text[Len(text)] = TokClose
     /\ \A i \in 2..(Len(text) - 1) : text[i].tok = "pair"
  \/ text = <<[tok |-> "["], [tok |-> "]"]>>

Loadable(f) == f.kind = "text" /\ ValidJson(f.text)

ValueOf(kv, k) == kv[CHOOSE i \in 1..Len(kv) : kv[i][1] = k][2]

Count(kv, k) == Cardinality({i \in 1..Len(kv) : kv[i][1] = k})

ResetKeys == {"languages", "references", "separatingFunctions", "adjacencyMatrix"}

NotResetKey(p) == p[1] \notin ResetKeys

NotAdjacencyKey(p) == p[1] # "adjacencyMatrix"

AllNull(m, n) ==
  /\ Len(m) = n
  /\ \A i \in 1..Len(m) : Len(m[i]) = n /\ \A j \in 1..Len(m[i]) : m[i][j] = Null

\* a run of o has completed without error and nothing ran since
Succeeded(o) == pc = "done" /\ op = o

(***************************************************************************)
(* C1: for every input sequence of ids of length N >= 0,                   *)
(* build_empty_adjacency returns languageIds equal to the input (same      *)
(* elements, same order) and a matrix of exactly N rows of length N with   *)
(* every cell null; the call is always possible (it never fails).          *)
(***************************************************************************)
C1_BuildEmptyAdjacency ==
  /\ bpc = "ready" => ENABLED BuildCall
  /\ bpc = "returned" =>
       /\ ret.languageIds = arg
       /\ AllNull(ret.matrix, Len(arg))

C1_Witness == bpc = "returned" /\ Len(arg) = 2 /\ arg[1] # arg[2] /\ Len(ret.matrix) = 2

(***************************************************************************)
(* C2: after a successful adjacency-only reset of a document whose         *)
(* languages list has N entries, languageIds[i] is the identifier          *)
(* (id or name) of languages[i] for every i, in order, and the matrix is   *)
(* N x N with every cell null, whatever the previous matrix held.          *)
(***************************************************************************)
IdOrName(lang) ==
  IF Count(lang.kv, "id") = 1 /\ ValueOf(lang.kv, "id") \notin {Null, ""}
  THEN ValueOf(lang.kv, "id")
  ELSE IF Count(lang.kv, "name") = 1 THEN ValueOf(lang.kv, "name") ELSE Null

C3_FullReset ==
  Succeeded("full") =>
    /\ \A k \in ResetKeys : Count(Stored.kv, k) = 1
    /\ ValueOf(Stored.kv, "languages") = <<>>
    /\ ValueOf(Stored.kv, "references") = <<>>
    /\ ValueOf(Stored.kv, "separatingFunctions") = <<>>
    /\ ValueOf(Stored.kv, "adjacencyMatrix") = [languageIds |-> <<>>, matrix |-> <<>>]
    /\ SelectSeq(Stored.kv, NotResetKey) = SelectSeq(Loaded0.kv, NotResetKey)

C3_Witness ==
  /\ Succeeded("full")
  /\ Count(Loaded0.kv, "meta") = 1
  /\ Count(Stored.kv, "meta") = 1
  /\ Count(Loaded0.kv, "languages") = 1
  /\ Len(ValueOf(Loaded0.kv, "languages")) = 2
  /\ Count(Loaded0.kv, "references") = 1
  /\ ValueOf(Loaded0.kv, "references") = <<"r1">>
  /\ Count(Loaded0.kv, "adjacencyMatrix") = 1
  /\ ValueOf(Loaded0.kv, "adjacencyMatrix").matrix = << <<"rel">> >>

(***************************************************************************)
(* C4: when the storage file is missing, unreadable or not valid JSON, a   *)
(* run of either operation fails, performs no write (the file is what it   *)
(* was before the run) and emits no confirmation message.                  *)
(***************************************************************************)
C4_ReadFailure ==
  (runs >= 1 /\ ~Loadable(file0)) =>
    /\ pc \in {"start", "failed", "idle"}
    /\ pc = "idle" => lastDone = "none"
    /\ file = file0
    /\ out = <<>>
    /\ \A i \in 1..Len(trace) : trace[i] = "read"

C4_Witness ==
  /\ pc = "failed"
  /\ file0 = [kind |-> "text", text |-> <<TokOpen, TokPair("meta", "m1")>>]
  /\ trace = <<"read">>

(***************************************************************************)
(* C5: when a write error occurs, in every state after the abort the file  *)
(* holds either the complete previous document or the complete new one,    *)
(* never a truncated or partially serialized one.                          *)
(***************************************************************************)
WriteAborted ==
  /\ pc \in {"failed", "idle"}
  /\ trace # <<>>
  /\ trace[Len(trace)] \in {"open_w_err", "write_err"}

C5_NoPartialWrite ==
  WriteAborted => (file = file0 \/ file = [kind |-> "text", text |-> json_dump(data)])

(***************************************************************************)
(* C6: after a successful adjacency-only reset every top-level key other   *)
(* than adjacencyMatrix (languages, references, separatingFunctions and    *)
(* any other) has the value it had in the loaded document; no key is       *)
(* added, removed or reordered.                                            *)
(***************************************************************************)
C6_AdjacencyFrame ==
  Succeeded("adj") =>
    SelectSeq(Stored.kv, NotAdjacencyKey) = SelectSeq(Loaded0.kv, NotAdjacencyKey)

C6_Witness ==
  /\ Succeeded("adj")
  /\ Count(Loaded0.kv, "references") = 1
  /\ ValueOf(Loaded0.kv, "references") = <<"r1", "r2">>
  /\ Count(Stored.kv, "references") = 1
  /\ ValueOf(Stored.kv, "references") = <<"r1", "r2">>
  /\ Count(Stored.kv, "languages") = 1
  /\ Len(ValueOf(Stored.kv, "languages")) = 2
  /\ Count(Stored.kv, "adjacencyMatrix") = 1
  /\ Count(Loaded0.kv, "adjacencyMatrix") = 1
  /\ ValueOf(Stored.kv, "adjacencyMatrix") # ValueOf(Loaded0.kv, "adjacencyMatrix")

(***************************************************************************)
(* C7: a full reset that directly follows a successful full reset leaves   *)
(* the stored document as the first one left it (twice equals once).       *)
(***************************************************************************)
C7_FullResetIdempotent ==
  (Succeeded("full") /\ lastDone = "full") => file = file0

C7_Witness ==
  /\ Succeeded("full")
  /\ lastDone = "full"
  /\ runs = 2
  /\ Count(Stored.kv, "meta") = 1
  /\ Len(Stored.kv) = 5

(***************************************************************************)
(* C8: in every run the steps occur in the order read, write, message;     *)
(* the message is emitted only after the write completed, at most one      *)
(* status line per run, at most one write per run, and a run that          *)
(* completes without error emits exactly one status line.                  *)
(***************************************************************************)
RunOrders ==
  { <<>>, <<"read">>, <<"read", "open_w_err">>, <<"read", "open_w">>,
    <<"read", "open_w", "write_err">>, <<"read", "open_w", "write">>,
    <<"read", "open_w", "write", "print">> }

C8_RunOrder ==
  /\ trace \in RunOrders
  /\ Len(out) <= 1
  /\ Len(out) = 1 <=> (trace = <<"read", "open_w", "write", "print">>)
  /\ Len(out) = 1 => file = [kind |-> "text", text |-> json_dump(data)]
  /\ pc = "done" => Len(out) = 1

C8_Witness ==
  /\ pc = "done"
  /\ out = <<MsgAdj>>
  /\ trace = <<"read", "open_w", "write", "print">>

(***************************************************************************)
(* C9: in the adjacency-only reset the identifier of a language record is  *)
(* its id whenever the record has an id key with a string value (the empty *)
(* string included), name is used only when id is absent, and every entry  *)
(* of the resulting languageIds is a string.                               *)
(***************************************************************************)
C9_IdentifierIsId ==
  (Succeeded("adj") /\ Count(Loaded0.kv, "languages") = 1) =>
    LET langs == ValueOf(Loaded0.kv, "languages")
        ids == ValueOf(Stored.kv, "adjacencyMatrix").languageIds
    IN  \A i \in 1..Len(langs) :
          /\ ids[i] # Null
          /\ (Count(langs[i].kv, "id") = 1 /\ ValueOf(langs[i].kv, "id") # Null)
               => ids[i] = ValueOf(langs[i].kv, "id")
          /\ (Count(langs[i].kv, "id") = 0 /\ Count(langs[i].kv, "name") = 1)
               => ids[i] = ValueOf(langs[i].kv, "name")

(***************************************************************************)
(* C10: after any successful run of either operation the stored document   *)
(* has len(matrix) = len(languageIds) = len(languages) (an absent          *)
(* languages key counting as the empty list) and every row of the matrix   *)
(* has that length.                                                        *)
(***************************************************************************)
StoredLanguages ==
  IF Count(Stored.kv, "languages") = 0 THEN <<>> ELSE ValueOf(Stored.kv, "languages")

C10_SquareAndConsistent ==
  pc = "done" =>
    LET adj == ValueOf(Stored.kv, "adjacencyMatrix")
        n == Len(StoredLanguages)
    IN  /\ Count(Stored.kv, "adjacencyMatrix") = 1
        /\ Len(adj.languageIds) = n
        /\ Len(adj.matrix) = n
        /\ \A i \in 1..Len(adj.matrix) : Len(adj.matrix[i]) = n

C10_Witness ==
  /\ Succeeded("adj")
  /\ runs = 2
  /\ lastDone = "adj"
  /\ Len(StoredLanguages) = 2
  /\ Count(Stored.kv, "adjacencyMatrix") = 1
  /\ Len(ValueOf(Stored.kv, "adjacencyMatrix").matrix) = 2

====
